---- MODULE Spec2Model ----
(***************************************************************************)
(* Model of netlify/functions/call-gemini.js: the sliding-window rate      *)
(* limiter (checkRateLimit), the request validator (validateRequest) and   *)
(* the handler that chains them in front of one outbound call to the       *)
(* upstream API.                                                           *)
(*                                                                         *)
(* JavaScript runs a handler invocation to completion between its awaits,  *)
(* so one action models everything an invocation does from its entry (or   *)
(* from the settling of the promise it awaits) to its next await or        *)
(* return.                                                                 *)
(***************************************************************************)
EXTENDS Integers, Sequences, FiniteSets, TLC

VARIABLES rateLimit, clock, apiKey, inv, last, admitted, ticks, calls

vars == <<rateLimit, clock, apiKey, inv, last, admitted, ticks, calls>>

(***************************************************************************)
(* Program constants                                                       *)
(***************************************************************************)
RATE_LIMIT_WINDOW == 60000
MAX_REQUESTS_PER_WINDOW == 30
MAX_PAYLOAD_SIZE == 100000

(***************************************************************************)
(* Bounds of the model                                                     *)
(***************************************************************************)
\* invocations that may be in flight in the process at once
MaxInFlight == 2
\* clock advances explored around handler invocations
MaxTicks == 1
\* clock advances explored around direct checkRateLimit calls (SpecRL)
MaxTicksRL == 2
\* handler invocations explored after the initial burst
MaxCalls == 2
\* direct checkRateLimit calls explored after the initial burst (SpecRL)
MaxChecks == 5
\* admissions the initial burst leaves free in the window of identity "a"
Headroom == 1

Procs == 1..MaxInFlight

\* amounts by which the clock advances between two steps
Deltas == {RATE_LIMIT_WINDOW - 1, RATE_LIMIT_WINDOW}

(***************************************************************************)
(* JSON values.  A string is modelled by its length and a tag, a number by *)
(* its value; arrays and objects are modelled structurally.                *)
(***************************************************************************)
JNull == [t |-> "null"]
JNum(n) == [t |-> "number", n |-> n]
JStr(tag, len) == [t |-> "string", s |-> tag, len |-> len]
JArr(items) == [t |-> "array", items |-> items]
JObj(fields) == [t |-> "object", fields |-> fields]
\* the value of a property that is not there, and of JSON.parse's failure
Undefined == [t |-> "undefined"]

\* number of characters of the property names the model uses
KeyLen(k) ==
  CASE k = "contents" -> 8
    [] k = "error" -> 5
    [] k = "foo" -> 3
    [] k = "x" -> 1

\* number of decimal digits of a natural number below 1000
NumLen(n) == IF n < 10 THEN 1 ELSE IF n < 100 THEN 2 ELSE 3

RECURSIVE SumSeq(_)
SumSeq(s) == IF s = <<>> THEN 0 ELSE Head(s) + SumSeq(Tail(s))

RECURSIVE SumFun(_, _)
SumFun(f, S) ==
  IF S = {} THEN 0
  ELSE LET k == CHOOSE x \in S : TRUE IN f[k] + SumFun(f, S \ {k})

\* JSON.stringify(v).length
RECURSIVE StringifyLength(_)
StringifyLength(v) ==
  CASE v.t = "null" -> 4
    [] v.t = "number" -> NumLen(v.n)
    [] v.t = "string" -> v.len + 2
    [] v.t = "array" ->
         LET n == Len(v.items) IN
         2 + SumSeq([i \in 1..n |-> StringifyLength(v.items[i])])
           + (IF n > 1 THEN n - 1 ELSE 0)
    [] v.t = "object" ->
         LET K == DOMAIN v.fields
             n == Cardinality(K) IN
         2 + SumFun([k \in K |-> KeyLen(k) + 2 + 1 + StringifyLength(v.fields[k])], K)
           + (IF n > 1 THEN n - 1 ELSE 0)

\* JavaScript's ToBoolean on a JSON value or undefined
Truthy(v) ==
  CASE v.t = "undefined" -> FALSE
    [] v.t = "null" -> FALSE
    [] v.t = "number" -> v.n # 0
    [] v.t = "string" -> v.len # 0
    [] OTHER -> TRUE

\* typeof v === 'object'
TypeofObject(v) == v.t \in {"null", "array", "object"}

\* v[k] for a property name k
Prop(v, k) ==
  IF v.t = "object" /\ k \in DOMAIN v.fields THEN v.fields[k] ELSE Undefined

(***************************************************************************)
(* Texts.  A text is what it parses to (if it parses) and whether it is    *)
(* written the way JSON.stringify writes that value.                       *)
(***************************************************************************)
Text(v, canon) == [given |-> TRUE, parses |-> TRUE, val |-> v, canon |-> canon]
Garbage == [given |-> TRUE, parses |-> FALSE, val |-> Undefined, canon |-> FALSE]
\* event.body missing
NoBody == [given |-> FALSE, parses |-> FALSE, val |-> Undefined, canon |-> FALSE]
\* event.body === null: JSON.parse converts it to the text "null"
NullBody == [given |-> FALSE, parses |-> TRUE, val |-> JNull, canon |-> FALSE]

JSONstringify(v) == Text(v, TRUE)
\* JSON.parse: the value, or a thrown SyntaxError
ParseThrows(text) == ~text.parses
JSONparse(text) == text.val

(***************************************************************************)
(* The rate limiter                                                        *)
(***************************************************************************)
\* the identities the model's events can carry
IPs == {"a", "b", "unknown"}

\* new Map()
EmptyMap == [ip \in {} |-> <<>>]

\* rateLimit.get(ip) || []
UserRequests(map, ip) == IF ip \in DOMAIN map THEN map[ip] ELSE <<>>

\* (mutant) an entry exactly one window old still counts
RecentInclusive(now, time) == now - time <= RATE_LIMIT_WINDOW

\* the filter's predicate: now - time < RATE_LIMIT_WINDOW
Recent(now, time) == now - time < RATE_LIMIT_WINDOW

\* (mutant) the stored sequence is taken as it is, nothing is filtered out
RecentRequestsUnfiltered(map, ip, now) == UserRequests(map, ip)

\* userRequests.filter(time => now - time < RATE_LIMIT_WINDOW)
RecentRequests(map, ip, now) ==
  LET InWindow(time) == Recent(now, time)
  IN SelectSeq(UserRequests(map, ip), InWindow)

\* (mutant) one sequence shared by all the identities of the map
MapSetShared(map, ip, value) == [k \in DOMAIN map \cup {ip} |-> value]

\* rateLimit.set(ip, value)
MapSet(map, ip, value) ==
  [k \in DOMAIN map \cup {ip} |-> IF k = ip THEN value ELSE map[k]]

\* (mutant) the limit test lets one request too many through
LimitReachedOffByOne(recentRequests) ==
  Len(recentRequests) > MAX_REQUESTS_PER_WINDOW

\* the limit test: recentRequests.length >= MAX_REQUESTS_PER_WINDOW
LimitReached(recentRequests) == Len(recentRequests) >= MAX_REQUESTS_PER_WINDOW

\* (mutant) the new instant is stored alone, the recent ones are dropped
checkRateLimitForgetful(map, ip, now) ==
  LET recentRequests == RecentRequests(map, ip, now) IN
  IF LimitReached(recentRequests)
  THEN [ok |-> FALSE, map |-> map]
  ELSE [ok |-> TRUE, map |-> MapSet(map, ip, <<now>>)]

\* (mutant) a rejected request is recorded too
checkRateLimitRecordsRejected(map, ip, now) ==
  LET recentRequests == RecentRequests(map, ip, now) IN
  IF LimitReached(recentRequests)
  THEN [ok |-> FALSE, map |-> MapSet(map, ip, Append(recentRequests, now))]
  ELSE [ok |-> TRUE, map |-> MapSet(map, ip, Append(recentRequests, now))]

\* (mutant) every call sweeps the whole map: the expired timestamps of all
\* the identities are dropped
checkRateLimitSweep(map, ip, now) ==
  LET recentRequests == RecentRequests(map, ip, now)
      swept == [k \in DOMAIN map |-> RecentRequests(map, k, now)]
  IN
  IF LimitReached(recentRequests)
  THEN [ok |-> FALSE, map |-> swept]
  ELSE [ok |-> TRUE, map |-> MapSet(swept, ip, Append(recentRequests, now))]

\* checkRateLimit(ip) run on the map `map` at instant `now`: the value it
\* returns and the map it leaves
checkRateLimit(map, ip, now) ==
  LET recentRequests == RecentRequests(map, ip, now) IN
  IF LimitReached(recentRequests)
  THEN [ok |-> FALSE, map |-> map]
  ELSE [ok |-> TRUE, map |-> MapSet(map, ip, Append(recentRequests, now))]

(***************************************************************************)
(* The validator                                                           *)
(***************************************************************************)
\* (mutant) a body of exactly MAX_PAYLOAD_SIZE characters is too large
TooLargeInclusive(bodySize) == bodySize >= MAX_PAYLOAD_SIZE

\* the size test: bodySize > MAX_PAYLOAD_SIZE
TooLarge(bodySize) == bodySize > MAX_PAYLOAD_SIZE

\* (mutant) the contents test joins its two conditions with && instead of ||
validateRequestLax(requestBody) ==
  IF ~Truthy(requestBody) \/ ~TypeofObject(requestBody)
  THEN "Invalid request body"
  ELSE IF ~Truthy(Prop(requestBody, "contents"))
          /\ Prop(requestBody, "contents").t # "array"
  THEN "Invalid contents format"
  ELSE IF TooLarge(StringifyLength(requestBody))
  THEN "Request payload too large"
  ELSE "ok"

\* validateRequest(requestBody): "ok" for return true, else the message of
\* the Error it throws
validateRequest(requestBody) ==
  IF ~Truthy(requestBody) \/ ~TypeofObject(requestBody)
  THEN "Invalid request body"
  ELSE IF ~Truthy(Prop(requestBody, "contents"))
          \/ Prop(requestBody, "contents").t # "array"
  THEN "Invalid contents format"
  ELSE IF TooLarge(StringifyLength(requestBody))
  THEN "Request payload too large"
  ELSE "ok"

(***************************************************************************)
(* Events, upstream outcomes and responses                                 *)
(***************************************************************************)
\* event.headers: absent altogether, or an object in which a header that is
\* missing or empty (both falsy) is written ""
NoHeaders == [present |-> FALSE, xff |-> "", cip |-> ""]
Headers(xff, cip) == [present |-> TRUE, xff |-> xff, cip |-> cip]

HeaderChoices ==
  {NoHeaders, Headers("", ""), Headers("a", ""), Headers("", "b"), Headers("a", "b")}

Methods == {"POST", "GET"}

\* {"contents":[]}
ContentsEmpty == JObj("contents" :> JArr(<<>>))
\* {"contents":["x...x"]} whose serialization has n characters
ContentsOfSize(n) == JObj("contents" :> JArr(<<JStr("x", n - 17)>>))
\* {"contents":"x...x"} whose serialization has n characters
ContentsStringOfSize(n) == JObj("contents" :> JStr("x", n - 15))

Bodies ==
  { NoBody, NullBody, Garbage,
    Text(JNum(5), TRUE), Text(JArr(<<>>), TRUE),
    Text(JObj("x" :> JNum(1)), TRUE),
    Text(ContentsStringOfSize(27), TRUE),
    Text(ContentsEmpty, TRUE), Text(ContentsEmpty, FALSE),
    Text(ContentsOfSize(MAX_PAYLOAD_SIZE), TRUE),
    Text(ContentsOfSize(MAX_PAYLOAD_SIZE + 1), TRUE) }

Events == [headers : HeaderChoices, httpMethod : Methods, body : Bodies]

NoEvent == [headers |-> NoHeaders, httpMethod |-> "", body |-> NoBody]

\* process.env.GEMINI_API_KEY: unset, empty, or one of two keys
EnvChoices == {[set |-> FALSE, value |-> ""], [set |-> TRUE, value |-> ""],
               [set |-> TRUE, value |-> "key"], [set |-> TRUE, value |-> "key2"]}

\* how the fetch promise settles: rejected, or a response with a status
Statuses == {200, 404, 429, 503}
FetchOutcomes ==
  {[rejected |-> TRUE, status |-> 0]} \cup
  {[rejected |-> FALSE, status |-> st] : st \in Statuses}

\* response.ok
ResponseOk(status) == status >= 200 /\ status <= 299

\* the body texts the upstream may answer with
UpstreamBodies == {Text(JObj("foo" :> JStr("bar", 3)), FALSE), Garbage}

\* the error messages, each named by what the source's text says (the
\* texts of lines 47, 72, 85, 111, 112 and 136 are Japanese)
MsgTooManyRequests == "too many requests, try again later"
MsgMethodNotAllowed == "Method not allowed"
MsgInvalidRequest == "invalid request"
MsgServerConfig == "server configuration error, contact the administrator"
MsgUpstreamRateLimit == "API rate limit reached, try again later"
MsgUpstreamFailed == "calling the Gemini API failed"
MsgServerError == "a server error occurred"

\* JSON.stringify({ error: msg }); the length of a message plays no part
ErrorBody(msg) == JSONstringify(JObj("error" :> JStr(msg, 1)))

ContentType == "Content-Type" :> "application/json"

Response(statusCode, headers, body) ==
  [statusCode |-> statusCode, headers |-> headers, body |-> body]

NoResponse == Response(0, <<>>, NoBody)

RateLimitedResponse ==
  Response(429, ContentType @@ ("Retry-After" :> "60"), ErrorBody(MsgTooManyRequests))
MethodNotAllowedResponse ==
  Response(405, ContentType @@ ("Allow" :> "POST"), ErrorBody(MsgMethodNotAllowed))
InvalidRequestResponse == Response(400, ContentType, ErrorBody(MsgInvalidRequest))
ServerConfigResponse == Response(500, ContentType, ErrorBody(MsgServerConfig))
\* (mutant) the upstream status is passed through to the client
UpstreamErrorResponsePassThrough(status) ==
  Response(status, ContentType,
           ErrorBody(IF status = 429 THEN MsgUpstreamRateLimit ELSE MsgUpstreamFailed))

UpstreamErrorResponse(status) ==
  Response(IF status = 429 THEN 429 ELSE 500, ContentType,
           ErrorBody(IF status = 429 THEN MsgUpstreamRateLimit ELSE MsgUpstreamFailed))
SuccessResponse(data) ==
  Response(200,
           ContentType @@ ("Cache-Control" :> "no-store, no-cache, must-revalidate")
                       @@ ("X-Content-Type-Options" :> "nosniff"),
           JSONstringify(data))
ServerErrorResponse == Response(500, ContentType, ErrorBody(MsgServerError))

\* the request handed to fetch
NoRequest == [key |-> "", method |-> "", body |-> NoBody]
UpstreamRequest(key, requestBody) ==
  [key |-> key, method |-> "POST", body |-> JSONstringify(requestBody)]

(***************************************************************************)
(* The handler                                                             *)
(***************************************************************************)
\* event.headers['x-forwarded-for'] || event.headers['client-ip'] || 'unknown'
ClientIp(headers) ==
  IF headers.xff # "" THEN headers.xff
  ELSE IF headers.cip # "" THEN headers.cip
  ELSE "unknown"

\* reading a property of event.headers throws when event.headers is absent
HeadersThrow(headers) == ~headers.present

\* the guarded step: JSON.parse(event.body) then validateRequest(requestBody);
\* TRUE when either throws
ParseOrValidateThrows(body) ==
  ParseThrows(body) \/ validateRequest(JSONparse(body)) # "ok"

\* (mutant) only an unset variable counts as no key: apiKey === undefined
NoApiKeyUndefinedOnly(env) == ~env.set

\* !apiKey
NoApiKey(env) == ~env.set \/ env.value = ""

\* (mutant) the method is tested before the rate limit
EntryMethodFirst(event, map, now, env) ==
  LET none == [thrown |-> FALSE, checked |-> FALSE, ip |-> "", ok |-> FALSE,
               map |-> map, returned |-> FALSE, response |-> NoResponse,
               issued |-> FALSE, sent |-> NoRequest]
  IN
  IF HeadersThrow(event.headers)
  THEN [none EXCEPT !.thrown = TRUE]
  ELSE
    LET clientIp == ClientIp(event.headers)
        rl == checkRateLimit(map, clientIp, now)
        checked == [none EXCEPT !.checked = TRUE, !.ip = clientIp,
                                !.ok = rl.ok, !.map = rl.map]
        Return(response) == [checked EXCEPT !.returned = TRUE, !.response = response]
    IN
    IF event.httpMethod # "POST"
    THEN [none EXCEPT !.ip = clientIp, !.returned = TRUE,
                      !.response = MethodNotAllowedResponse]
    ELSE IF ~rl.ok THEN Return(RateLimitedResponse)
    ELSE IF ParseOrValidateThrows(event.body) THEN Return(InvalidRequestResponse)
    ELSE IF NoApiKey(env) THEN Return(ServerConfigResponse)
    ELSE [checked EXCEPT !.issued = TRUE,
                         !.sent = UpstreamRequest(env.value, JSONparse(event.body))]

\* what an invocation does from its entry to its first await or its return
Entry(event, map, now, env) ==
  LET none == [thrown |-> FALSE, checked |-> FALSE, ip |-> "", ok |-> FALSE,
               map |-> map, returned |-> FALSE, response |-> NoResponse,
               issued |-> FALSE, sent |-> NoRequest]
  IN
  IF HeadersThrow(event.headers)
  THEN [none EXCEPT !.thrown = TRUE]
  ELSE
    LET clientIp == ClientIp(event.headers)
        rl == checkRateLimit(map, clientIp, now)
        checked == [none EXCEPT !.checked = TRUE, !.ip = clientIp,
                                !.ok = rl.ok, !.map = rl.map]
        Return(response) == [checked EXCEPT !.returned = TRUE, !.response = response]
    IN
    IF ~rl.ok THEN Return(RateLimitedResponse)
    ELSE IF event.httpMethod # "POST" THEN Return(MethodNotAllowedResponse)
    ELSE IF ParseOrValidateThrows(event.body) THEN Return(InvalidRequestResponse)
    ELSE IF NoApiKey(env) THEN Return(ServerConfigResponse)
    ELSE [checked EXCEPT !.issued = TRUE,
                         !.sent = UpstreamRequest(env.value, JSONparse(event.body))]

\* (mutant) a non-success status makes the invocation call the upstream again
AfterFetchRetry(outcome) ==
  IF outcome.rejected
  THEN [returned |-> TRUE, response |-> ServerErrorResponse, pc |-> "idle", status |-> 0]
  ELSE IF ~ResponseOk(outcome.status)
  THEN [returned |-> FALSE, response |-> NoResponse, pc |-> "fetch", status |-> 0]
  ELSE [returned |-> FALSE, response |-> NoResponse, pc |-> "okjson",
        status |-> outcome.status]

\* what an invocation awaiting fetch does once the promise settles
AfterFetch(outcome) ==
  IF outcome.rejected
  THEN [returned |-> TRUE, response |-> ServerErrorResponse, pc |-> "idle", status |-> 0]
  ELSE IF ~ResponseOk(outcome.status)
  THEN [returned |-> FALSE, response |-> NoResponse, pc |-> "errjson",
        status |-> outcome.status]
  ELSE [returned |-> FALSE, response |-> NoResponse, pc |-> "okjson",
        status |-> outcome.status]

\* (mutant) the upstream's error document is handed on to the client
AfterJsonEcho(pc, status, text) ==
  IF pc = "errjson"
  THEN IF ParseThrows(text) THEN UpstreamErrorResponse(status)
       ELSE Response(IF status = 429 THEN 429 ELSE 500, ContentType,
                     JSONstringify(JSONparse(text)))
  ELSE IF ParseThrows(text) THEN ServerErrorResponse
  ELSE SuccessResponse(JSONparse(text))

\* what an invocation awaiting response.json() does once the body is read
AfterJson(pc, status, text) ==
  IF pc = "errjson"
  THEN UpstreamErrorResponse(status)
  ELSE IF ParseThrows(text) THEN ServerErrorResponse
  ELSE SuccessResponse(JSONparse(text))

(***************************************************************************)
(* State                                                                   *)
(***************************************************************************)
Idle == [pc |-> "idle", status |-> 0]

\* the record of the most recent step
NoStep ==
  [kind |-> "none", p |-> 0, event |-> NoEvent, ip |-> "", ok |-> FALSE,
   thrown |-> FALSE, issued |-> FALSE, sent |-> NoRequest,
   rejected |-> FALSE, status |-> 0,
   upstream |-> NoBody, returned |-> FALSE, response |-> NoResponse]

RECURSIVE Burst(_, _, _, _)
\* the map after n more checkRateLimit(ip) calls at instant now, with the
\* instants of the calls that returned true; acc is the map and the
\* instants so far.  (The test on Len makes the evaluation of each call
\* precede the next one.)
Burst(acc, ip, now, n) ==
  IF n <= 0 THEN acc
  ELSE LET rl == checkRateLimit(acc.map, ip, now)
           after == [map |-> rl.map,
                     admitted |-> IF rl.ok THEN Append(acc.admitted, now)
                                  ELSE acc.admitted]
       IN IF Len(after.admitted) + Cardinality(DOMAIN after.map) >= 0
          THEN Burst(after, ip, now, n - 1)
          ELSE acc

BurstSizes == {0, MAX_REQUESTS_PER_WINDOW - Headroom}

\* the module has just been loaded (new Map()), or identity "a" has since
\* sent a burst of requests, all at instant 0
Init ==
  /\ clock = 0
  /\ \E n \in BurstSizes :
       LET b == Burst([map |-> EmptyMap, admitted |-> <<>>], "a", 0, n) IN
       /\ rateLimit = b.map
       /\ admitted = [ip \in IPs |-> IF ip = "a" THEN b.admitted ELSE <<>>]
  /\ apiKey \in EnvChoices
  /\ inv = [p \in Procs |-> Idle]
  /\ last = NoStep
  /\ ticks = 0
  /\ calls = 0

\* the record of the previous step has been taken
Delivered == last.kind = "none"

\* what the last step produced (the response for the client, the rejection
\* for the entry point, the value for the caller) is taken by whom it is for
Deliver ==
  /\ ~Delivered
  /\ last' = NoStep
  /\ UNCHANGED <<rateLimit, clock, apiKey, inv, admitted, ticks, calls>>

\* Date.now() moves on
Tick(d, limit) ==
  /\ Delivered
  /\ ticks < limit
  /\ clock' = clock + d
  /\ ticks' = ticks + 1
  /\ UNCHANGED <<rateLimit, apiKey, inv, last, admitted, calls>>

Record(ip, ok, now) ==
  IF ok THEN [admitted EXCEPT ![ip] = Append(@, now)] ELSE admitted

\* the runtime calls exports.handler(event)
Invoke(p, event) ==
  /\ Delivered
  /\ inv[p].pc = "idle"
  /\ calls < MaxCalls
  /\ LET r == Entry(event, rateLimit, clock, apiKey) IN
     /\ rateLimit' = r.map
     /\ admitted' = IF r.checked THEN Record(r.ip, r.ok, clock) ELSE admitted
     /\ inv' = [inv EXCEPT ![p] = IF r.issued THEN [pc |-> "fetch", status |-> 0]
                                  ELSE Idle]
     /\ last' = [NoStep EXCEPT !.kind = "invoke", !.p = p, !.event = event,
                               !.ip = r.ip, !.ok = r.ok, !.thrown = r.thrown,
                               !.issued = r.issued, !.sent = r.sent,
                               !.returned = r.returned, !.response = r.response]
  /\ calls' = calls + 1
  /\ UNCHANGED <<clock, apiKey, ticks>>

\* the promise of fetch settles
FetchSettle(p, outcome) ==
  /\ Delivered
  /\ inv[p].pc = "fetch"
  /\ LET r == AfterFetch(outcome) IN
     /\ inv' = [inv EXCEPT ![p] = [pc |-> r.pc, status |-> IF r.pc = "errjson"
                                                          THEN r.status ELSE 0]]
     /\ last' = [NoStep EXCEPT !.kind = "fetch", !.p = p,
                               !.rejected = outcome.rejected,
                               !.status = outcome.status,
                               !.returned = r.returned, !.response = r.response]
  /\ UNCHANGED <<rateLimit, clock, apiKey, admitted, ticks, calls>>

\* the promise of response.json() settles
JsonSettle(p, text) ==
  /\ Delivered
  /\ inv[p].pc \in {"errjson", "okjson"}
  /\ inv' = [inv EXCEPT ![p] = Idle]
  /\ last' = [NoStep EXCEPT !.kind = inv[p].pc, !.p = p,
                            !.status = inv[p].status, !.upstream = text,
                            !.returned = TRUE,
                            !.response = AfterJson(inv[p].pc, inv[p].status, text)]
  /\ UNCHANGED <<rateLimit, clock, apiKey, admitted, ticks, calls>>

\* checkRateLimit(ip) called on its own
Check(ip) ==
  /\ Delivered
  /\ calls < MaxChecks
  /\ LET rl == checkRateLimit(rateLimit, ip, clock) IN
     /\ rateLimit' = rl.map
     /\ admitted' = Record(ip, rl.ok, clock)
     /\ last' = [NoStep EXCEPT !.kind = "check", !.ip = ip, !.ok = rl.ok]
  /\ calls' = calls + 1
  /\ UNCHANGED <<clock, apiKey, inv, ticks>>

\* the events of the interleaved runs: one of each way through the handler
\* for identity "a", and a valid POST of another identity
ProbeEvents ==
  {[headers |-> Headers("a", ""), httpMethod |-> "POST", body |-> Text(ContentsEmpty, TRUE)],
   [headers |-> Headers("a", ""), httpMethod |-> "GET", body |-> NoBody],
   [headers |-> Headers("", ""), httpMethod |-> "POST", body |-> Text(ContentsEmpty, TRUE)]}

\* how the fetch promise settles in the interleaved runs: rejected, a
\* success, or the failure status the handler tells apart
ProbeOutcomes ==
  {outcome \in FetchOutcomes : outcome.rejected \/ outcome.status \in {200, 429}}

\* no invocation is in flight
Quiet == \A p \in Procs : inv[p].pc = "idle"

\* one request at a time: the runtime hands the next event to the handler
\* once the previous invocation has returned
Next ==
  \/ \E d \in Deltas : Tick(d, MaxTicks)
  \/ \E event \in Events : Quiet /\ Invoke(1, event)
  \/ \E outcome \in FetchOutcomes : FetchSettle(1, outcome)
  \/ \E text \in UpstreamBodies : JsonSettle(1, text)
  \/ Deliver

Spec == Init /\ [][Next]_vars

\* several invocations in one process, interleaved at their awaits
NextConc ==
  \/ \E d \in Deltas : Tick(d, MaxTicks)
  \/ \E p \in Procs, event \in ProbeEvents : Invoke(p, event)
  \/ \E p \in Procs, outcome \in ProbeOutcomes : FetchSettle(p, outcome)
  \/ \E p \in Procs, text \in UpstreamBodies : JsonSettle(p, text)
  \/ Deliver

InitKeyed == Init /\ apiKey = [set |-> TRUE, value |-> "key"]

SpecConc == InitKeyed /\ [][NextConc]_vars

\* interleaved invocations, where every outbound call eventually completes
\* or fails, every body read eventually ends, and every value returned is
\* taken
SpecConcFair ==
  /\ InitKeyed
  /\ [][NextConc]_vars
  /\ \A p \in Procs :
       /\ WF_vars(\E outcome \in ProbeOutcomes : FetchSettle(p, outcome))
       /\ WF_vars(\E text \in UpstreamBodies : JsonSettle(p, text))
  /\ WF_vars(Deliver)

\* checkRateLimit alone, called one at a time
NextRL ==
  \/ \E d \in Deltas : Tick(d, MaxTicksRL)
  \/ \E ip \in IPs : Check(ip)
  \/ Deliver

SpecRL == InitKeyed /\ [][NextRL]_vars

\* checkRateLimit alone, where time keeps passing and every value returned
\* is taken; whether and when an identity sends a request is up to it
SpecRLFair ==
  /\ InitKeyed
  /\ [][NextRL]_vars
  /\ WF_vars(\E d \in Deltas : Tick(d, MaxTicksRL))
  /\ WF_vars(Deliver)

\* the values Date.now() may return when the system clock is set
Instants == {0, RATE_LIMIT_WINDOW - 1, RATE_LIMIT_WINDOW}

\* the system clock is set: Date.now() returns t from now on, which may be
\* earlier than what it returned before
SetClock(t) ==
  /\ Delivered
  /\ ticks < MaxTicksRL
  /\ t # clock
  /\ clock' = t
  /\ ticks' = ticks + 1
  /\ UNCHANGED <<rateLimit, apiKey, inv, last, admitted, calls>>

\* checkRateLimit alone, under a clock that may go back
NextAnyClock ==
  \/ \E t \in Instants : SetClock(t)
  \/ \E ip \in IPs : Check(ip)
  \/ Deliver

SpecAnyClock == InitKeyed /\ [][NextAnyClock]_vars

TypeOK ==
  /\ clock \in Nat
  /\ DOMAIN rateLimit \subseteq IPs
  /\ \A p \in Procs : inv[p].pc \in {"idle", "fetch", "errjson", "okjson"}

(***************************************************************************)
(* Vocabulary of the properties                                            *)
(***************************************************************************)
\* number of entries e of seq with lo < e <= hi
CountIn(seq, lo, hi) ==
  Cardinality({i \in 1..Len(seq) : lo < seq[i] /\ seq[i] <= hi})

\* number of entries of seq less than a window before now
CountRecent(seq, now) ==
  Cardinality({i \in 1..Len(seq) : now - seq[i] < RATE_LIMIT_WINDOW})

\* the entries of seq less than a window before now, in order
StillInWindow(seq, now) ==
  LET Fresh(e) == now - e < RATE_LIMIT_WINDOW IN SelectSeq(seq, Fresh)

\* a checkRateLimit call has just returned
CheckStep == last.kind = "none" /\ last'.kind = "check"

\* an invocation has just run from its entry to its first await or return
InvokeStep == last.kind = "none" /\ last'.kind = "invoke"

\* the body is JSON text for a non-null object whose contents is an array
\* and whose serialization has at most 100000 characters
WellFormed(body) ==
  /\ body.parses
  /\ body.val.t = "object"
  /\ "contents" \in DOMAIN body.val.fields
  /\ body.val.fields["contents"].t = "array"
  /\ StringifyLength(body.val) <= 100000

\* the credential is not configured
CredentialAbsent == ~apiKey.set \/ apiKey.value = ""

\* the response is an error response with this status and message
IsError(response, statusCode, msg) ==
  /\ response.statusCode = statusCode
  /\ response.body.parses
  /\ response.body.val = JObj("error" :> JStr(msg, 1))

(***************************************************************************)
(* C1: with calls made one at a time and a clock that never goes back, no  *)
(* identity has more than 30 admitted requests in any interval             *)
(* (t - 60000, t].  An interval that holds an admitted request holds no    *)
(* more of them than the interval that ends at the latest one it holds, so *)
(* t ranges over the admitted instants.                                    *)
(***************************************************************************)
C1_WindowBound ==
  \A ip \in IPs : \A i \in 1..Len(admitted[ip]) :
    CountIn(admitted[ip], admitted[ip][i] - 60000, admitted[ip][i]) <= 30

\* a call is rejected while 30 admitted requests lie in the window
C1_Witness ==
  /\ last.kind = "check" /\ ~last.ok
  /\ CountIn(admitted[last.ip], clock - 60000, clock) = 30

(***************************************************************************)
(* C2: checkRateLimit(identity) at instant now returns false if and only   *)
(* if at least 30 requests admitted before for that identity have a        *)
(* timestamp t with now - t < 60000.                                       *)
(***************************************************************************)
C2_ExactCount ==
  [][CheckStep =>
       (~last'.ok <=> CountRecent(admitted[last'.ip], clock) >= 30)]_vars

\* 30 admissions at instant 0, then a request at instant 60000 is admitted
C2_Witness ==
  /\ last.kind = "check" /\ last.ok /\ clock = 60000
  /\ CountIn(admitted[last.ip], -1, 0) = 30
  /\ Len(admitted[last.ip]) = 31

(***************************************************************************)
(* C8: a checkRateLimit call for one identity leaves the stored sequence   *)
(* of every other identity as it was, and an identity that has no entry is *)
(* admitted whatever the other identities have sent.                       *)
(***************************************************************************)
C8_PerIdentity ==
  [][CheckStep =>
       /\ \A other \in IPs \ {last'.ip} :
            /\ (other \in DOMAIN rateLimit') = (other \in DOMAIN rateLimit)
            /\ UserRequests(rateLimit', other) = UserRequests(rateLimit, other)
       /\ last'.ip \notin DOMAIN rateLimit => last'.ok]_vars

\* identity "a" has used its 30 admissions, and "b" is admitted at once
C8_Witness ==
  /\ last.kind = "check" /\ last.ip = "b" /\ last.ok
  /\ CountRecent(admitted["a"], clock) = 30
  /\ rateLimit["b"] = <<clock>>

(***************************************************************************)
(* C3: the checks run in the order rate limit, method, parse/validate,     *)
(* credential, upstream call, and the first that fails decides the         *)
(* response: a rate-limited identity gets 429 whatever the method, body    *)
(* and credential; otherwise a method other than POST gets 405 whatever    *)
(* the body and credential; otherwise an invalid body gets 400 whatever    *)
(* the credential; and none of the three sends anything upstream.  (The    *)
(* requests are those that carry headers, from which the identity comes.)  *)
(***************************************************************************)
C3_CheckOrder ==
  [][InvokeStep /\ last'.event.headers.present =>
       LET limited == CountRecent(admitted[last'.ip], clock) >= 30
           method == last'.event.httpMethod
           body == last'.event.body
           Answers(statusCode) ==
             /\ last'.returned
             /\ last'.response.statusCode = statusCode
             /\ ~last'.issued
       IN /\ limited => Answers(429)
          /\ ~limited /\ method # "POST" => Answers(405)
          /\ ~limited /\ method = "POST" /\ ~WellFormed(body) => Answers(400)]_vars

\* a GET with an unparsable body from a rate-limited identity, on a server
\* without credential, gets 429
C3_Witness ==
  /\ last.kind = "invoke" /\ last.response.statusCode = 429
  /\ last.event.httpMethod = "GET" /\ last.event.body = Garbage
  /\ CredentialAbsent

(***************************************************************************)
(* C4: a call to the upstream is issued for an invocation only if the      *)
(* invocation passed the rate limiter, its method is POST and its body     *)
(* parsed and passed validateRequest; what is sent is the parsed body.     *)
(***************************************************************************)
C4_OnlyValidated ==
  [][/\ InvokeStep /\ last'.issued =>
          /\ CountRecent(admitted[last'.ip], clock) < 30
          /\ last'.event.httpMethod = "POST"
          /\ WellFormed(last'.event.body)
          /\ last'.sent.body.parses
          /\ last'.sent.body.val = last'.event.body.val
     /\ \A p \in Procs :
          inv[p].pc = "idle" /\ inv'[p].pc # "idle" =>
            InvokeStep /\ last'.issued /\ last'.p = p]_vars

\* a body of exactly 100000 characters is sent upstream
C4_Witness ==
  /\ last.kind = "invoke" /\ last.issued
  /\ StringifyLength(last.event.body.val) = 100000
  /\ inv[last.p].pc = "fetch"

(***************************************************************************)
(* C5: whatever the event and whatever the upstream does, the handler      *)
(* returns a response {statusCode, headers, body} and lets no exception    *)
(* reach the entry point.                                                  *)
(***************************************************************************)
C5_AlwaysShaped ==
  /\ ~last.thrown
  /\ last.returned =>
       /\ last.response.statusCode \in {200, 400, 405, 429, 500}
       /\ "Content-Type" \in DOMAIN last.response.headers
       /\ last.response.body.parses

(***************************************************************************)
(* C6: a request that reaches the credential check while the credential    *)
(* is absent gets 500 with the server-misconfiguration message, and no     *)
(* call to the upstream is issued for it.                                  *)
(***************************************************************************)
C6_NoCredential ==
  [][/\ InvokeStep /\ last'.event.headers.present
     /\ CountRecent(admitted[last'.ip], clock) < 30
     /\ last'.event.httpMethod = "POST"
     /\ WellFormed(last'.event.body)
     /\ CredentialAbsent
     => /\ last'.returned
        /\ IsError(last'.response, 500, MsgServerConfig)
        /\ ~last'.issued
        /\ last'.sent = NoRequest
        /\ inv'[last'.p].pc = "idle"]_vars

\* a valid POST meets a credential that is set but empty
C6_Witness ==
  /\ last.kind = "invoke" /\ IsError(last.response, 500, MsgServerConfig)
  /\ apiKey.set /\ WellFormed(last.event.body)

(***************************************************************************)
(* C7: once the call to the upstream is made, the response is decided by   *)
(* its outcome alone: status 429 gives 429 with the upstream-rate-limit    *)
(* message and no Retry-After; another non-success status gives 500 with   *)
(* the upstream-call-failed message; a failed call or an unreadable        *)
(* success body gives 500 with the generic message; a success gives 200    *)
(* with the parsed document and the Cache-Control and                      *)
(* X-Content-Type-Options headers; no other status is produced.            *)
(***************************************************************************)
C7_UpstreamMapping ==
  /\ last.kind = "fetch" =>
       IF last.rejected
       THEN last.returned /\ IsError(last.response, 500, MsgServerError)
       ELSE ~last.returned
  /\ last.kind = "errjson" =>
       /\ last.returned
       /\ IF last.status = 429
          THEN /\ IsError(last.response, 429, MsgUpstreamRateLimit)
               /\ "Retry-After" \notin DOMAIN last.response.headers
          ELSE IsError(last.response, 500, MsgUpstreamFailed)
  /\ last.kind = "okjson" =>
       /\ last.returned
       /\ IF last.upstream.parses
          THEN /\ last.response.statusCode = 200
               /\ last.response.body.parses
               /\ last.response.body.val = last.upstream.val
               /\ last.response.headers["Cache-Control"] =
                    "no-store, no-cache, must-revalidate"
               /\ last.response.headers["X-Content-Type-Options"] = "nosniff"
               /\ last.response.headers["Content-Type"] = "application/json"
          ELSE IsError(last.response, 500, MsgServerError)
  /\ last.kind \in {"fetch", "errjson", "okjson"} /\ last.returned =>
       last.response.statusCode \in {200, 429, 500}

\* the upstream answers 503 and the client gets 500
C7_Witness ==
  /\ last.kind = "errjson" /\ last.status = 503
  /\ IsError(last.response, 500, MsgUpstreamFailed)

(***************************************************************************)
(* C9: with invocations interleaved at their awaits, no identity has more  *)
(* than 30 admitted requests in any interval (t - 60000, t], and every     *)
(* admitted instant still inside the window is in the stored sequence.     *)
(***************************************************************************)
C9_Interleaved ==
  \A ip \in IPs :
    /\ \A i \in 1..Len(admitted[ip]) :
         CountIn(admitted[ip], admitted[ip][i] - 60000, admitted[ip][i]) <= 30
    /\ StillInWindow(admitted[ip], clock) =
         StillInWindow(UserRequests(rateLimit, ip), clock)

\* an invocation is rejected while another one, admitted as the 30th of
\* the same identity, is suspended on the read of the upstream's body
C9_Witness ==
  /\ last.kind = "invoke" /\ last.p = 2 /\ ~last.ok /\ last.ip = "a"
  /\ inv[1].pc \in {"errjson", "okjson"}
  /\ CountRecent(admitted["a"], clock) = 30

(***************************************************************************)
(* C10: a POST that is not rate limited passes the parse/validate step if  *)
(* and only if its body is JSON text for a non-null object whose contents  *)
(* is an array and whose serialization has at most 100000 characters;      *)
(* every body that fails gets the same 400 response.                       *)
(***************************************************************************)
C10_Validation ==
  [][/\ InvokeStep /\ last'.event.headers.present
     /\ CountRecent(admitted[last'.ip], clock) < 30
     /\ last'.event.httpMethod = "POST"
     => LET body == last'.event.body
            passes == last'.issued \/ IsError(last'.response, 500, MsgServerConfig)
        IN /\ passes <=> WellFormed(body)
           /\ ~WellFormed(body) =>
                /\ last'.returned
                /\ IsError(last'.response, 400, MsgInvalidRequest)
                /\ last'.response.headers = ("Content-Type" :> "application/json")]_vars

\* a body of 100001 characters gets 400
C10_Witness ==
  /\ last.kind = "invoke" /\ last.response.statusCode = 400
  /\ last.event.body.parses
  /\ StringifyLength(last.event.body.val) = 100001

\* a step of an invocation has just run (entry, or the settling of an await)
HandlerStep == last.kind = "none" /\ last'.kind \in {"invoke", "fetch", "errjson", "okjson"}

(***************************************************************************)
(* C11: an invocation issues at most one call to the upstream in its       *)
(* lifetime.  The call is issued by the entry step alone, and exactly when *)
(* that step leaves the invocation awaiting it; an entry step that returns *)
(* issues none; no later step of the invocation (the upstream answered     *)
(* with an error or with 429, the call failed, the body was read) issues a *)
(* call or leaves the invocation awaiting one again.                       *)
(***************************************************************************)
C11_OneCall ==
  [][HandlerStep =>
       LET p == last'.p IN
       IF last'.kind = "invoke"
       THEN /\ last'.issued <=> inv'[p].pc = "fetch"
            /\ last'.issued <=> last'.sent # NoRequest
            /\ last'.returned \/ last'.thrown => ~last'.issued /\ inv'[p].pc = "idle"
            /\ \A q \in Procs \ {p} : inv'[q] = inv[q]
       ELSE /\ ~last'.issued /\ last'.sent = NoRequest
            /\ inv'[p].pc # "fetch"
            /\ inv[p].pc = "fetch" => inv'[p].pc \in {"idle", "errjson", "okjson"}
            /\ inv[p].pc \in {"errjson", "okjson"} => inv'[p].pc = "idle"
            /\ \A q \in Procs \ {p} : inv'[q] = inv[q]]_vars

\* the upstream answered 429: the invocation has returned and awaits nothing
C11_Witness ==
  /\ last.kind = "errjson" /\ last.status = 429 /\ last.returned
  /\ inv[last.p].pc = "idle"

(***************************************************************************)
(* C12: the response for an upstream failure is one of two fixed           *)
(* responses, chosen by whether the upstream status is 429: it is the same *)
(* whatever the upstream's error body, whatever the status otherwise, and  *)
(* whatever the value of the credential, so two runs that differ only in   *)
(* those return the same (statusCode, headers, body).                      *)
(***************************************************************************)
C12_OpaqueFailure ==
  last.kind = "errjson" =>
    /\ last.returned
    /\ last.response =
         IF last.status = 429
         THEN [statusCode |-> 429,
               headers |-> ("Content-Type" :> "application/json"),
               body |-> Text(JObj("error" :> JStr(MsgUpstreamRateLimit, 1)), TRUE)]
         ELSE [statusCode |-> 500,
               headers |-> ("Content-Type" :> "application/json"),
               body |-> Text(JObj("error" :> JStr(MsgUpstreamFailed, 1)), TRUE)]

\* the upstream answered 404 with a readable error document, to a server
\* whose credential is the second key
C12_Witness ==
  /\ last.kind = "errjson" /\ last.status = 404
  /\ last.upstream.parses /\ apiKey.value = "key2"
  /\ last.response.statusCode = 500

\* the entry of identity ip after an admitted call at instant now: its
\* timestamps still inside the window, then now
Counted(map, ip, now) == Append(StillInWindow(UserRequests(map, ip), now), now)

\* the entries of the identities other than ip are what they were
OthersKept(ip) ==
  \A other \in IPs \ {ip} :
    /\ (other \in DOMAIN rateLimit') = (other \in DOMAIN rateLimit)
    /\ UserRequests(rateLimit', other) = UserRequests(rateLimit, other)

(***************************************************************************)
(* C13, as stated: an invocation that ends with 405 leaves the rate-limit  *)
(* map exactly as it was before the invocation.                            *)
(***************************************************************************)
C13_MethodNotAllowedFrame ==
  [][InvokeStep /\ last'.returned /\ last'.response.statusCode = 405
     => rateLimit' = rateLimit]_vars

(***************************************************************************)
(* C13, amended: an invocation that ends with 405 has been counted: the    *)
(* entry of its identity becomes its unexpired timestamps followed by the  *)
(* current instant, and the entry of every other identity is as it was.    *)
(***************************************************************************)
C13_MethodNotAllowedCounted ==
  [][InvokeStep /\ last'.returned /\ last'.response.statusCode = 405
     => /\ last'.ip \in DOMAIN rateLimit'
        /\ rateLimit'[last'.ip] = Counted(rateLimit, last'.ip, clock)
        /\ rateLimit' # rateLimit
        /\ OthersKept(last'.ip)]_vars

\* a GET of an identity never seen before gets 405 and an entry of its own,
\* beside the 29 timestamps of identity "a"
C13_Witness ==
  /\ last.kind = "invoke" /\ last.response.statusCode = 405
  /\ last.ip = "unknown" /\ rateLimit["unknown"] = <<clock>>
  /\ "a" \in DOMAIN rateLimit /\ Len(rateLimit["a"]) = 29

(***************************************************************************)
(* C14: a rejected check records nothing.  When checkRateLimit returns     *)
(* false (the handler then answers 429 with Retry-After: 60), the whole    *)
(* map, and so the sequence of the identity, is what it was before the     *)
(* call; the map changes only in a call that returns true, which appends   *)
(* the current instant.                                                    *)
(***************************************************************************)
C14_RejectedNotRecorded ==
  [][InvokeStep /\ last'.event.headers.present =>
       /\ ~last'.ok =>
            /\ rateLimit' = rateLimit
            /\ admitted' = admitted
            /\ last'.response.statusCode = 429
            /\ last'.response.headers["Retry-After"] = "60"
       /\ rateLimit' # rateLimit => last'.ok
       /\ last'.ok =>
            /\ Len(rateLimit'[last'.ip]) >= 1
            /\ rateLimit'[last'.ip][Len(rateLimit'[last'.ip])] = clock]_vars

\* a request is rejected at a later instant while the 30 timestamps of its
\* identity are all in the window
C14_Witness ==
  /\ last.kind = "invoke" /\ ~last.ok /\ last.response.statusCode = 429
  /\ clock > 0
  /\ Len(rateLimit[last.ip]) = 30

(***************************************************************************)
(* C15: right after a checkRateLimit(identity) call at instant now,        *)
(* whether it admitted or rejected, every timestamp e in the stored        *)
(* sequence of that identity has now - e < 60000.                          *)
(***************************************************************************)
C15_StoredAllRecent ==
  last.kind = "check" =>
    \A i \in 1..Len(UserRequests(rateLimit, last.ip)) :
      clock - rateLimit[last.ip][i] < 60000

\* a call a full window after 30 admissions finds them all expired and
\* leaves its own instant alone in the stored sequence
C15_Witness ==
  /\ last.kind = "check" /\ last.ok /\ clock >= 60000
  /\ Len(admitted[last.ip]) = 31
  /\ rateLimit[last.ip] = <<clock>>

(***************************************************************************)
(* C16, as stated: whatever values the clock takes, going back included, a *)
(* call at instant now is not admitted when 30 or more requests admitted   *)
(* before for that identity have a timestamp t with now - t < 60000.       *)
(***************************************************************************)
C16_AnyClockAdmittedBound ==
  [][CheckStep =>
       (CountRecent(admitted[last'.ip], clock) >= 30 => ~last'.ok)]_vars

(***************************************************************************)
(* C16, amended: whatever values the clock takes, a call at instant now is *)
(* not admitted when 30 or more timestamps t of the stored sequence of     *)
(* that identity have now - t < 60000, and is admitted otherwise.          *)
(***************************************************************************)
C16_AnyClockStoredBound ==
  [][CheckStep =>
       (CountRecent(UserRequests(rateLimit, last'.ip), clock) >= 30 <=> ~last'.ok)]_vars

\* a call is rejected at an instant earlier than a stored timestamp
C16_Witness ==
  /\ last.kind = "check" /\ ~last.ok
  /\ \E i \in 1..Len(rateLimit[last.ip]) : rateLimit[last.ip][i] > clock

(***************************************************************************)
(* C20: in every reachable state, whatever the checks made and whatever    *)
(* values the clock takes, every identity present in the map has a stored  *)
(* sequence of at least 1 and at most 30 timestamps.                       *)
(***************************************************************************)
C20_StoredLength ==
  \A ip \in DOMAIN rateLimit :
    Len(rateLimit[ip]) >= 1 /\ Len(rateLimit[ip]) <= 30

\* after the clock went back, one identity holds 30 timestamps and another
\* one holds a single timestamp
C20_Witness ==
  /\ \E ip \in DOMAIN rateLimit :
       /\ Len(rateLimit[ip]) = 30
       /\ \E i \in 1..30 : rateLimit[ip][i] > clock
  /\ \E ip \in DOMAIN rateLimit : Len(rateLimit[ip]) = 1

(***************************************************************************)
(* C17, as stated: an identity that stops sending requests has its stored  *)
(* sequence eventually shrink to empty while its entry stays in the map    *)
(* (no key is ever removed).                                               *)
(***************************************************************************)
C17_QuiescentEmpties ==
  \A ip \in IPs :
    /\ []((ip \in DOMAIN rateLimit) => [](ip \in DOMAIN rateLimit))
    /\ <>[](last.kind = "check" => last.ip # ip)
         => <>[](ip \in DOMAIN rateLimit => rateLimit[ip] = <<>>)

(***************************************************************************)
(* C17, amended: the stored sequence of an identity changes only in a      *)
(* checkRateLimit call of that identity, so an identity that stops sending *)
(* requests keeps its stored sequence as its last call left it, however    *)
(* much time passes and whatever the other identities send; a stored       *)
(* sequence is never empty; no key is ever removed.                        *)
(***************************************************************************)
C17_QuiescentKept ==
  [][\A ip \in IPs :
       /\ ip \in DOMAIN rateLimit =>
            ip \in DOMAIN rateLimit' /\ rateLimit'[ip] # <<>>
       /\ ~(CheckStep /\ last'.ip = ip) =>
            /\ (ip \in DOMAIN rateLimit') = (ip \in DOMAIN rateLimit)
            /\ UserRequests(rateLimit', ip) = UserRequests(rateLimit, ip)]_vars

\* identity "a" sent nothing since its burst; all its timestamps are a
\* window old or older, another identity has just been checked, and the
\* sequence of "a" is as the burst left it
C17_Witness ==
  /\ last.kind = "check" /\ last.ip = "b" /\ last.ok
  /\ "a" \in DOMAIN rateLimit
  /\ rateLimit["a"] = admitted["a"]
  /\ Len(rateLimit["a"]) = MAX_REQUESTS_PER_WINDOW - Headroom
  /\ \A i \in 1..Len(rateLimit["a"]) : clock - rateLimit["a"][i] >= 60000

(***************************************************************************)
(* C18: every invocation the rate limiter does not reject uses up one unit *)
(* of its identity's quota whatever its outcome: be it answered 405, 400   *)
(* or 500 or sent on to the upstream, its instant is appended once to the  *)
(* stored sequence of its identity, and nothing the invocation does later  *)
(* touches the map.  So requests that are not POST or not valid fill the   *)
(* window like any other, and a valid POST that finds it full gets 429.    *)
(***************************************************************************)
C18_EveryOutcomeCounts ==
  [][HandlerStep =>
       IF last'.kind = "invoke"
       THEN last'.event.headers.present =>
              LET ip == ClientIp(last'.event.headers)
                  used == CountRecent(admitted[ip], clock)
              IN /\ used < 30 =>
                      /\ last'.thrown \/ last'.issued
                           \/ last'.response.statusCode \in {405, 400, 500}
                      /\ ip \in DOMAIN rateLimit'
                      /\ rateLimit'[ip] = Counted(rateLimit, ip, clock)
                      /\ admitted'[ip] = Append(admitted[ip], clock)
                      /\ CountRecent(admitted'[ip], clock) = used + 1
                 /\ used >= 30 =>
                      /\ last'.response.statusCode = 429
                      /\ rateLimit' = rateLimit
       ELSE rateLimit' = rateLimit /\ admitted' = admitted]_vars

\* on a server without credential, where no request gets past an error
\* response, the requests made since the burst have filled the window of
\* identity "a" and a valid POST is answered 429
C18_Witness ==
  /\ last.kind = "invoke" /\ last.response.statusCode = 429
  /\ last.event.httpMethod = "POST" /\ WellFormed(last.event.body)
  /\ CredentialAbsent
  /\ calls = Headroom + 1
  /\ CountRecent(admitted[last.ip], clock) = 30

(***************************************************************************)
(* C19: an invocation suspended on its outbound call touches no shared     *)
(* state and blocks nobody.  The map is changed only by the entry step of  *)
(* an invocation (its rate-limit step), never by a later step; a step of   *)
(* one invocation leaves every other invocation where it was, and a step   *)
(* returns a response exactly when it ends its invocation; and, every      *)
(* outbound call eventually completing or failing, every invocation in     *)
(* flight eventually returns its response.                                 *)
(***************************************************************************)
C19_SuspendedHarmless ==
  /\ [][/\ rateLimit' # rateLimit => InvokeStep /\ inv[last'.p].pc = "idle"
        /\ HandlerStep =>
             /\ last'.kind # "invoke" => rateLimit' = rateLimit
             /\ \A q \in Procs \ {last'.p} : inv'[q] = inv[q]
             /\ last'.returned <=> inv'[last'.p].pc = "idle"
             /\ last'.returned => last'.response # NoResponse]_vars
  /\ \A p \in Procs :
       (inv[p].pc # "idle") ~>
         (inv[p].pc = "idle" /\ last.p = p /\ last.returned)

\* invocation 2 was invoked, counted and answered 405 while invocation 1,
\* of the same identity, is suspended on its outbound call
C19_Witness ==
  /\ inv[1].pc = "fetch"
  /\ last.kind = "invoke" /\ last.p = 2 /\ last.returned
  /\ last.response.statusCode = 405
  /\ last.ip = "a" /\ Len(admitted["a"]) = 31 - Headroom

====
